---- MODULE Spec2Model ----
(***************************************************************************)
(* Vantage-point tree of DataWraith/vptree.                                *)
(*                                                                         *)
(* Two revisions of the package are modelled:                              *)
(*   - src/unnamed/part_000: nodes own their item, the search radius tau   *)
(*     is a local of each Search call (operators New, Search, ...);        *)
(*   - src/vptree.go: nodes hold an index into vp.items, the search radius *)
(*     is the field vp.tau of the tree (operators OldNew, OldSearch, ...). *)
(*                                                                         *)
(* Items are points of a small metric space; distances are naturals, so    *)
(* the float64 comparisons of the code are exact here.  Go slices are      *)
(* 0-based; a Go index j is the TLA+ index j + 1.                          *)
(***************************************************************************)
EXTENDS Integers, Sequences, FiniteSets, TLC

VARIABLES
    d,        \* the Metric handed to New: distance of every pair of points
    input,    \* the contents of the items slice when New was called
    items,    \* the caller's items slice (vp.items in src/vptree.go)
    root,     \* vp.root
    built,    \* TRUE once New has returned
    tau,      \* the search radii: cell 0 is the field vp.tau of src/vptree.go,
              \* cell p the local tau of the Search call of goroutine p
    calls,    \* the Search call of every goroutine, step by step
    last      \* arguments and results of the last Search call run in one piece

vars == <<d, input, items, root, built, tau, calls, last>>

----------------------------------------------------------------------------
(* Bounds of the model *)

MaxItems == 4      \* longest items slice handed to New
MaxDist == 2       \* largest distance between two distinct points
MaxK == 4          \* largest k handed to Search
ConcItems == 3     \* longest items slice of the concurrent specifications
ConcK == 2         \* largest k of the concurrent specifications

Points == {0, 1, 2}
Procs == {1, 2}

\* math.MaxFloat64: larger than every distance, and x + MaxFloat64 and
\* x - MaxFloat64 compare against a distance as they do in float64
MaxFloat64 == 1000

Nil == [nil |-> TRUE]

\* The metrics on Points (the contract of type Metric), one for every
\* renaming of the points: slices and targets range over all points, so
\* the three distances are taken in ascending order
Metrics ==
    { m \in [Points \X Points -> 0..MaxDist] :
        /\ \A a, b \in Points : (m[<<a, b>>] = 0) <=> (a = b)
        /\ \A a, b \in Points : m[<<a, b>>] = m[<<b, a>>]
        /\ \A a, b, c \in Points : m[<<a, c>>] <= m[<<a, b>>] + m[<<b, c>>]
        /\ m[<<0, 1>>] <= m[<<0, 2>>]
        /\ m[<<0, 2>>] <= m[<<1, 2>>] }

distanceMetric(a, b) == d[<<a, b>>]

SeqsUpTo(S, n) == UNION { [1..m -> S] : m \in 0..n }

\* The results of the calls rand.Intn makes while New builds a tree of n
\* items, in call order: call i is Intn(len) with len <= n - i + 1 and
\* returns source[i] % len
RandSources(n) == { r \in [1..n -> 0..(n - 1)] : \A i \in 1..n : r[i] <= n - i }

Swap(s, i, j) == [s EXCEPT ![i + 1] = s[j + 1], ![j + 1] = s[i + 1]]

RECURSIVE Reverse(_)
Reverse(s) == IF s = <<>> THEN <<>> ELSE Append(Reverse(Tail(s)), Head(s))

Min(a, b) == IF a < b THEN a ELSE b
Max(a, b) == IF a > b THEN a ELSE b

----------------------------------------------------------------------------
(* priorityQueue (a max-heap on Dist) under container/heap *)

\* priorityQueue.Less: greater distance first
Less(h, i, j) == h[i + 1].Dist > h[j + 1].Dist

\* priorityQueue.Pop: the last element leaves the slice
pqPop(h) == SubSeq(h, 1, Len(h) - 1)

\* priorityQueue.Top
Top(h) == h[1]

\* container/heap up
RECURSIVE up(_, _)
up(h, j) ==
    IF j = 0 THEN h
    ELSE LET i == (j - 1) \div 2
         IN IF ~Less(h, j, i) THEN h ELSE up(Swap(h, i, j), i)

\* container/heap down
RECURSIVE down(_, _, _)
down(h, i, n) ==
    LET j1 == 2 * i + 1
    IN IF j1 >= n THEN h
       ELSE LET j == IF j1 + 1 < n /\ Less(h, j1 + 1, j1) THEN j1 + 1 ELSE j1
            IN IF ~Less(h, j, i) THEN h ELSE down(Swap(h, i, j), j, n)

\* heap.Push
heapPush(h, x) == up(Append(h, x), Len(h))

\* heap.Pop: the heap that is left
heapPop(h) == pqPop(down(Swap(h, 0, Len(h) - 1), 0, Len(h) - 1))

----------------------------------------------------------------------------
(* src/unnamed/part_000: New *)

\* line 100: the test that sends an item to the low group
lowGroup(dist, pivotDist) == dist <= pivotDist

\* A slip in the swap of line 101: the item is copied, not exchanged
partitionStepCopy(s, i, storeIndex) == [s EXCEPT ![storeIndex + 1] = s[i + 1]]

\* lines 100-103: one round of the partition loop
partitionStep(s, i, storeIndex) == Swap(s, storeIndex, i)

\* lines 98-104: the partition loop; the result is the slice and storeIndex
RECURSIVE partitionLoop(_, _, _, _, _)
partitionLoop(s, item, pivotDist, i, storeIndex) ==
    IF i >= Len(s) - 1 THEN [items |-> s, storeIndex |-> storeIndex]
    ELSE IF lowGroup(distanceMetric(s[i + 1], item), pivotDist)
         THEN partitionLoop(partitionStep(s, i, storeIndex), item, pivotDist,
                            i + 1, storeIndex + 1)
         ELSE partitionLoop(s, item, pivotDist, i + 1, storeIndex)

\* line 88: items[idx] takes the last element and the slice loses its last slot
takeOut(s, idx) == SubSeq([s EXCEPT ![idx + 1] = s[Len(s)]], 1, Len(s) - 1)

\* line 94
medianIndex(s) == Len(s) \div 2

\* A slip at line 106: median stays the midpoint, storeIndex is ignored
partitionAtMidpoint(s, item) ==
    LET median == medianIndex(s)
        pivotDist == distanceMetric(s[median + 1], item)
        s1 == Swap(s, median, Len(s) - 1)
        p == partitionLoop(s1, item, pivotDist, 0, 0)
    IN [items |-> Swap(p.items, Len(s) - 1, p.storeIndex),
        median |-> median,
        pivotDist |-> pivotDist]

\* lines 94-106: the slice partitioned around items[median]
partition(s, item) ==
    LET median == medianIndex(s)
        pivotDist == distanceMetric(s[median + 1], item)
        s1 == Swap(s, median, Len(s) - 1)
        p == partitionLoop(s1, item, pivotDist, 0, 0)
    IN [items |-> Swap(p.items, Len(s) - 1, p.storeIndex),
        median |-> p.storeIndex,
        pivotDist |-> pivotDist]

\* lines 78-113.  s is the slice, source the results of the coming rand.Intn
\* calls.  The result is the node and what the slots of s hold afterwards.
RECURSIVE buildFromPoints(_, _)
buildFromPoints(s, source) ==
    IF Len(s) = 0 THEN [n |-> Nil, items |-> <<>>]
    ELSE
      LET idx == Head(source) % Len(s)
          item == s[idx + 1]
          rest == takeOut(s, idx)
          lastSlot == s[Len(s)]
      IN IF Len(rest) = 0
         THEN [n |-> [Item |-> item, Threshold |-> 0, Left |-> Nil, Right |-> Nil],
               items |-> <<lastSlot>>]
         ELSE
           LET p == partition(rest, item)
               l == buildFromPoints(SubSeq(p.items, 1, p.median), Tail(source))
               r == buildFromPoints(SubSeq(p.items, p.median + 1, Len(rest)),
                                    SubSeq(source, p.median + 2, Len(source)))
           IN [n |-> [Item |-> item, Threshold |-> p.pivotDist,
                      Left |-> l.n, Right |-> r.n],
               items |-> l.items \o r.items \o <<lastSlot>>]

\* New, lines 41-47: the tree and the caller's slice after the call
New(s, source) ==
    LET b == buildFromPoints(s, source)
    IN [root |-> b.n, items |-> b.items]

----------------------------------------------------------------------------
(* src/unnamed/part_000: Search *)

\* A slip at lines 123-125: a full heap is not relieved of its worst entry
offerNoEvict(st, item, dist, k) ==
    IF dist < st.tau
    THEN LET h2 == heapPush(st.h, [Item |-> item, Dist |-> dist])
         IN [h |-> h2, tau |-> IF Len(h2) = k THEN Top(h2).Dist ELSE st.tau]
    ELSE st

\* A slip at line 128: tau takes the distance just found, not the heap's top
offerTauDist(st, item, dist, k) ==
    IF dist < st.tau
    THEN LET h1 == IF Len(st.h) = k THEN heapPop(st.h) ELSE st.h
             h2 == heapPush(h1, [Item |-> item, Dist |-> dist])
         IN [h |-> h2, tau |-> IF Len(h2) = k THEN dist ELSE st.tau]
    ELSE st

\* lines 122-130: the candidate heap and tau after the node's item was offered
offer(st, item, dist, k) ==
    IF dist < st.tau
    THEN LET h1 == IF Len(st.h) = k THEN heapPop(st.h) ELSE st.h
             h2 == heapPush(h1, [Item |-> item, Dist |-> dist])
         IN [h |-> h2, tau |-> IF Len(h2) = k THEN Top(h2).Dist ELSE st.tau]
    ELSE st

\* lines 137 and 149
visitLeft(dist, t, threshold) == dist - t <= threshold

\* A slip at lines 141 and 145: the sign of tau taken from the other test
visitRightMinus(dist, t, threshold) == dist - t >= threshold

\* lines 141 and 145
visitRight(dist, t, threshold) == dist + t >= threshold

\* lines 132-134
isLeaf(n) == n.Left = Nil /\ n.Right = Nil

\* lines 115-153
RECURSIVE search(_, _, _, _)
search(n, st, target, k) ==
    IF n = Nil THEN st
    ELSE
      LET dist == distanceMetric(n.Item, target)
          st1 == offer(st, n.Item, dist, k)
      IN IF isLeaf(n) THEN st1
         ELSE IF dist < n.Threshold
         THEN LET st2 == IF visitLeft(dist, st1.tau, n.Threshold)
                         THEN search(n.Left, st1, target, k) ELSE st1
              IN IF visitRight(dist, st2.tau, n.Threshold)
                 THEN search(n.Right, st2, target, k) ELSE st2
         ELSE LET st2 == IF visitRight(dist, st1.tau, n.Threshold)
                         THEN search(n.Right, st1, target, k) ELSE st1
              IN IF visitLeft(dist, st2.tau, n.Threshold)
                 THEN search(n.Left, st2, target, k) ELSE st2

\* lines 62-66: the heap popped until it is empty, largest distance first
RECURSIVE drain(_)
drain(h) == IF Len(h) = 0 THEN <<>> ELSE <<Top(h)>> \o drain(heapPop(h))

\* A slip at lines 68-73: the results leave in the order the heap gave them
keepOrder(s) == s

\* lines 68-73
reverseResults(s) == Reverse(s)

\* lines 62-75: results and distances from the heap the traversal left
collect(h) ==
    LET out == reverseResults(drain(h))
    IN [results |-> [i \in 1..Len(out) |-> out[i].Item],
        distances |-> [i \in 1..Len(out) |-> out[i].Dist]]

\* lines 53-55
tooSmall(k) == k < 1

\* Search, lines 52-76
Search(n, target, k) ==
    IF tooSmall(k) THEN [results |-> <<>>, distances |-> <<>>]
    ELSE collect(search(n, [h |-> <<>>, tau |-> MaxFloat64], target, k).h)

----------------------------------------------------------------------------
(* The library used from one goroutine: New once, then a Search call run   *)
(* in one piece.  Search changes nothing of the tree, so a behaviour holds *)
(* one call; calls that follow and overlap each other are in SpecConc.     *)

NoCall == [pc |-> "idle"]
NoLast == [called |-> FALSE]

Init ==
    /\ d \in Metrics
    /\ input \in SeqsUpTo(Points, MaxItems)
    /\ items = input
    /\ root = Nil
    /\ built = FALSE
    /\ tau = [c \in {0} \cup Procs |-> 0]
    /\ calls = [p \in Procs |-> NoCall]
    /\ last = NoLast

DoNew ==
    /\ ~built
    /\ \E source \in RandSources(Len(items)) :
         LET t == New(items, source)
         IN /\ root' = t.root
            /\ items' = t.items
    /\ built' = TRUE
    /\ UNCHANGED <<d, input, tau, calls, last>>

DoSearch ==
    /\ built
    /\ ~last.called
    /\ \E target \in Points, k \in -1..MaxK :
         LET r == Search(root, target, k)
         IN last' = [called |-> TRUE, target |-> target, k |-> k,
                     results |-> r.results, distances |-> r.distances]
    /\ UNCHANGED <<d, input, items, root, built, tau, calls>>

Next == DoNew \/ DoSearch

Spec == Init /\ [][Next]_vars

----------------------------------------------------------------------------
(* src/unnamed/part_000: Search calls of several goroutines on one tree,   *)
(* step by step.  A call keeps the pending work of the recursion of search *)
(* in calls[p].stack, innermost first: "search" is a call of search about  *)
(* to start, "left" and "right" are the second test of lines 136-152,      *)
(* waiting for the first subtree to return.                                *)

\* The design of src/vptree.go: one tau for all calls, a field of the tree
fieldCell(p) == 0

\* line 59: tau is a local of the Search call; the cell that holds it
tauCell(p) == p

Running(p) == calls[p].pc = "run"

Frame(op, n, dist) == [op |-> op, n |-> n, dist |-> dist]

\* lines 52-60: Search is called
Begin(p, target, k) ==
    /\ built
    /\ calls[p].pc = "idle"
    /\ IF tooSmall(k)
       THEN /\ calls' = [calls EXCEPT ![p] =
                 [pc |-> "done", target |-> target, k |-> k, h |-> <<>>,
                  stack |-> <<>>, results |-> <<>>, distances |-> <<>>]]
            /\ tau' = tau
       ELSE /\ calls' = [calls EXCEPT ![p] =
                 [pc |-> "run", target |-> target, k |-> k, h |-> <<>>,
                  stack |-> <<Frame("search", root, 0)>>,
                  results |-> <<>>, distances |-> <<>>]]
            /\ tau' = [tau EXCEPT ![tauCell(p)] = MaxFloat64]
    /\ UNCHANGED <<d, input, items, root, built, last>>

\* lines 115-153: the work search does up to its next recursive call
Visit(p) ==
    /\ Running(p)
    /\ calls[p].stack # <<>>
    /\ LET c == calls[p]
           f == Head(c.stack)
           below == Tail(c.stack)
           n == f.n
       IN CASE f.op = "search" /\ n = Nil ->
                 /\ calls' = [calls EXCEPT ![p].stack = below]
                 /\ tau' = tau
            [] f.op = "search" /\ n # Nil ->
                 LET dist == distanceMetric(n.Item, c.target)
                     st == offer([h |-> c.h, tau |-> tau[tauCell(p)]],
                                 n.Item, dist, c.k)
                     next ==
                         IF isLeaf(n) THEN below
                         ELSE IF dist < n.Threshold
                         THEN IF visitLeft(dist, st.tau, n.Threshold)
                              THEN <<Frame("search", n.Left, 0),
                                     Frame("right", n, dist)>> \o below
                              ELSE <<Frame("right", n, dist)>> \o below
                         ELSE IF visitRight(dist, st.tau, n.Threshold)
                              THEN <<Frame("search", n.Right, 0),
                                     Frame("left", n, dist)>> \o below
                              ELSE <<Frame("left", n, dist)>> \o below
                 IN /\ calls' = [calls EXCEPT ![p].h = st.h, ![p].stack = next]
                    /\ tau' = [tau EXCEPT ![tauCell(p)] = st.tau]
            [] f.op = "right" ->
                 /\ calls' = [calls EXCEPT ![p].stack =
                        IF visitRight(f.dist, tau[tauCell(p)], n.Threshold)
                        THEN <<Frame("search", n.Right, 0)>> \o below
                        ELSE below]
                 /\ tau' = tau
            [] f.op = "left" ->
                 /\ calls' = [calls EXCEPT ![p].stack =
                        IF visitLeft(f.dist, tau[tauCell(p)], n.Threshold)
                        THEN <<Frame("search", n.Left, 0)>> \o below
                        ELSE below]
                 /\ tau' = tau
    /\ UNCHANGED <<d, input, items, root, built, last>>

\* lines 62-75: the traversal is over, Search returns; the loop of lines
\* 62-66 leaves the heap empty, and the local tau is gone with the call
Return(p) ==
    /\ Running(p)
    /\ calls[p].stack = <<>>
    /\ LET out == collect(calls[p].h)
       IN calls' = [calls EXCEPT ![p].pc = "done", ![p].h = <<>>,
                                 ![p].results = out.results,
                                 ![p].distances = out.distances]
    /\ tau' = [tau EXCEPT ![tauCell(p)] = 0]
    /\ UNCHANGED <<d, input, items, root, built, last>>

\* The points taken as points of a line, as the tests take coordinates
LineMetric == [pq \in Points \X Points |->
                 IF pq[1] > pq[2] THEN pq[1] - pq[2] ELSE pq[2] - pq[1]]

\* lines 169-179 of the test: the goroutine is done with the results of a
\* call and comes round its loop
Again(p) ==
    /\ calls[p].pc = "done"
    /\ calls' = [calls EXCEPT ![p] = NoCall]
    /\ UNCHANGED <<d, input, items, root, built, tau, last>>

InitConc ==
    /\ d = LineMetric
    /\ input \in SeqsUpTo(Points, ConcItems)
    /\ items = input
    /\ root = Nil
    /\ built = FALSE
    /\ tau = [c \in {0} \cup Procs |-> 0]
    /\ calls = [p \in Procs |-> NoCall]
    /\ last = NoLast

NextConc ==
    \/ DoNew
    \/ \E p \in Procs, target \in Points, k \in 0..ConcK : Begin(p, target, k)
    \/ \E p \in Procs : Visit(p)
    \/ \E p \in Procs : Return(p)
    \/ \E p \in Procs : Again(p)

SpecConc == InitConc /\ [][NextConc]_vars

----------------------------------------------------------------------------
(* src/vptree.go: New.  Nodes hold an index into vp.items.                 *)

\* lines 82-84
RECURSIVE scanLeft(_, _, _, _)
scanLeft(s, left, lower, pivotDistance) ==
    IF distanceMetric(s[left + 1], s[lower + 1]) < pivotDistance
    THEN scanLeft(s, left + 1, lower, pivotDistance)
    ELSE left

\* lines 85-87
RECURSIVE scanRight(_, _, _, _)
scanRight(s, right, lower, pivotDistance) ==
    IF distanceMetric(s[right + 1], s[lower + 1]) > pivotDistance
    THEN scanRight(s, right - 1, lower, pivotDistance)
    ELSE right

\* lines 81-93
RECURSIVE oldPartition(_, _, _, _, _)
oldPartition(s, lower, left, right, pivotDistance) ==
    IF left < right
    THEN LET l == scanLeft(s, left, lower, pivotDistance)
             r == scanRight(s, right, lower, pivotDistance)
         IN IF l <= r
            THEN oldPartition(Swap(s, l, r), lower, l + 1, r - 1, pivotDistance)
            ELSE oldPartition(s, lower, l, r, pivotDistance)
    ELSE s

\* lines 63-104.  s is vp.items, source the results of the coming rand.Intn
\* calls.  The result is the node, vp.items afterwards and the results of
\* rand.Intn not yet used.
RECURSIVE oldBuildFromPoints(_, _, _, _)
oldBuildFromPoints(s, lower, upper, source) ==
    IF upper = lower THEN [n |-> Nil, items |-> s, source |-> source]
    ELSE IF upper - lower > 1
    THEN LET i == (Head(source) % (upper - lower - 1)) + lower
             s1 == Swap(s, lower, i)
             median == (upper + lower) \div 2
             pivotDistance == distanceMetric(s1[median + 1], s1[lower + 1])
             s2 == oldPartition(s1, lower, lower + 1, upper, pivotDistance)
             threshold == distanceMetric(s2[lower + 1], s2[median + 1])
             l == oldBuildFromPoints(s2, lower + 1, median, Tail(source))
             r == oldBuildFromPoints(l.items, median, upper, l.source)
         IN [n |-> [Index |-> lower, Threshold |-> threshold,
                    Left |-> l.n, Right |-> r.n],
             items |-> r.items, source |-> r.source]
    ELSE [n |-> [Index |-> lower, Threshold |-> 0, Left |-> Nil, Right |-> Nil],
          items |-> s, source |-> source]

\* line 36: the range New hands to buildFromPoints
oldUpper(s) == Len(s) - 1

\* New, lines 30-39
OldNew(s, source) ==
    IF Len(s) > 0
    THEN LET b == oldBuildFromPoints(s, 0, oldUpper(s), source)
         IN [root |-> b.n, items |-> b.items]
    ELSE [root |-> Nil, items |-> s]

----------------------------------------------------------------------------
(* src/vptree.go: Search, run in one piece *)

\* lines 113-121
oldOffer(st, index, dist, k) ==
    IF dist < st.tau
    THEN LET h1 == IF Len(st.h) = k THEN heapPop(st.h) ELSE st.h
             h2 == heapPush(h1, [Index |-> index, Dist |-> dist])
         IN [h |-> h2, tau |-> IF Len(h2) = k THEN Top(h2).Dist ELSE st.tau]
    ELSE st

\* lines 106-144
RECURSIVE oldSearchRec(_, _, _, _, _)
oldSearchRec(s, n, st, target, k) ==
    IF n = Nil THEN st
    ELSE
      LET dist == distanceMetric(s[n.Index + 1], target)
          st1 == oldOffer(st, n.Index, dist, k)
      IN IF isLeaf(n) THEN st1
         ELSE IF dist < n.Threshold
         THEN LET st2 == IF visitLeft(dist, st1.tau, n.Threshold)
                         THEN oldSearchRec(s, n.Left, st1, target, k) ELSE st1
              IN IF visitRight(dist, st2.tau, n.Threshold)
                 THEN oldSearchRec(s, n.Right, st2, target, k) ELSE st2
         ELSE LET st2 == IF visitRight(dist, st1.tau, n.Threshold)
                         THEN oldSearchRec(s, n.Right, st1, target, k) ELSE st1
              IN IF visitLeft(dist, st2.tau, n.Threshold)
                 THEN oldSearchRec(s, n.Left, st2, target, k) ELSE st2

\* lines 47-51: h.Pop() is priorityQueue.Pop, which hands out the last
\* element of the slice
RECURSIVE oldDrain(_)
oldDrain(h) == IF Len(h) = 0 THEN <<>> ELSE <<h[Len(h)]>> \o oldDrain(pqPop(h))

\* lines 47-60
oldCollect(s, h) ==
    LET out == Reverse(oldDrain(h))
    IN [results |-> [i \in 1..Len(out) |-> s[out[i].Index + 1]],
        distances |-> [i \in 1..Len(out) |-> out[i].Dist]]

\* Search, lines 41-61, with k >= 1
OldSearch(s, n, target, k) ==
    oldCollect(s, oldSearchRec(s, n, [h |-> <<>>, tau |-> MaxFloat64], target, k).h)

----------------------------------------------------------------------------
(* src/vptree.go: Search calls of several goroutines on one tree.  Every   *)
(* read and every write of the field vp.tau is a step of its own.          *)

\* line 25: tau is a field of the tree; the cell that holds it
oldTauCell(p) == 0

DoOldNew ==
    /\ ~built
    /\ \E source \in RandSources(Len(items)) :
         LET t == OldNew(items, source)
         IN /\ root' = t.root
            /\ items' = t.items
    /\ built' = TRUE
    /\ UNCHANGED <<d, input, tau, calls, last>>

\* lines 42-45
OldBegin(p, target, k) ==
    /\ built
    /\ calls[p].pc = "idle"
    /\ calls' = [calls EXCEPT ![p] =
          [pc |-> "run", target |-> target, k |-> k, h |-> <<>>,
           stack |-> <<Frame("search", root, 0)>>,
           results |-> <<>>, distances |-> <<>>]]
    /\ tau' = [tau EXCEPT ![oldTauCell(p)] = MaxFloat64]
    /\ UNCHANGED <<d, input, items, root, built, last>>

OldVisit(p) ==
    /\ Running(p)
    /\ calls[p].stack # <<>>
    /\ LET c == calls[p]
           f == Head(c.stack)
           below == Tail(c.stack)
           n == f.n
           t == tau[oldTauCell(p)]
       IN CASE f.op = "search" /\ n = Nil ->
                 \* lines 107-109
                 /\ calls' = [calls EXCEPT ![p].stack = below]
                 /\ tau' = tau
            [] f.op = "search" /\ n # Nil ->
                 \* lines 111-118: vp.tau is read once, at line 113
                 LET dist == distanceMetric(items[n.Index + 1], c.target)
                     st == oldOffer([h |-> c.h, tau |-> t], n.Index, dist, c.k)
                     tighten == dist < t /\ Len(st.h) = c.k
                 IN /\ calls' = [calls EXCEPT
                          ![p].h = st.h,
                          ![p].stack = <<Frame(IF tighten THEN "tighten" ELSE "branch",
                                               n, dist)>> \o below]
                    /\ tau' = tau
            [] f.op = "tighten" ->
                 \* line 119: vp.tau is written
                 /\ calls' = [calls EXCEPT ![p].stack =
                        <<Frame("branch", n, f.dist)>> \o below]
                 /\ tau' = [tau EXCEPT ![oldTauCell(p)] = Top(c.h).Dist]
            [] f.op = "branch" ->
                 \* lines 123-137: vp.tau is read for the first test
                 /\ calls' = [calls EXCEPT ![p].stack =
                        IF isLeaf(n) THEN below
                        ELSE IF f.dist < n.Threshold
                        THEN IF visitLeft(f.dist, t, n.Threshold)
                             THEN <<Frame("search", n.Left, 0),
                                    Frame("right", n, f.dist)>> \o below
                             ELSE <<Frame("right", n, f.dist)>> \o below
                        ELSE IF visitRight(f.dist, t, n.Threshold)
                             THEN <<Frame("search", n.Right, 0),
                                    Frame("left", n, f.dist)>> \o below
                             ELSE <<Frame("left", n, f.dist)>> \o below]
                 /\ tau' = tau
            [] f.op = "right" ->
                 \* lines 132-134
                 /\ calls' = [calls EXCEPT ![p].stack =
                        IF visitRight(f.dist, t, n.Threshold)
                        THEN <<Frame("search", n.Right, 0)>> \o below
                        ELSE below]
                 /\ tau' = tau
            [] f.op = "left" ->
                 \* lines 140-142
                 /\ calls' = [calls EXCEPT ![p].stack =
                        IF visitLeft(f.dist, t, n.Threshold)
                        THEN <<Frame("search", n.Left, 0)>> \o below
                        ELSE below]
                 /\ tau' = tau
    /\ UNCHANGED <<d, input, items, root, built, last>>

\* lines 47-60
OldReturn(p) ==
    /\ Running(p)
    /\ calls[p].stack = <<>>
    /\ LET out == oldCollect(items, calls[p].h)
       IN calls' = [calls EXCEPT ![p].pc = "done", ![p].h = <<>>,
                                 ![p].results = out.results,
                                 ![p].distances = out.distances]
    /\ UNCHANGED <<d, input, items, root, built, tau, last>>

NextOld ==
    \/ DoOldNew
    \/ \E p \in Procs, target \in Points, k \in 1..ConcK : OldBegin(p, target, k)
    \/ \E p \in Procs : OldVisit(p)
    \/ \E p \in Procs : OldReturn(p)
    \/ \E p \in Procs : Again(p)

SpecOld == InitConc /\ [][NextOld]_vars

----------------------------------------------------------------------------
(* Vocabulary of the properties *)

\* The items stored in a subtree, node first
RECURSIVE TreeItems(_)
TreeItems(n) ==
    IF n = Nil THEN <<>> ELSE <<n.Item>> \o TreeItems(n.Left) \o TreeItems(n.Right)

\* The nodes of a subtree
RECURSIVE Nodes(_)
Nodes(n) == IF n = Nil THEN {} ELSE {n} \cup Nodes(n.Left) \cup Nodes(n.Right)

Elems(s) == { s[i] : i \in DOMAIN s }
Count(s, x) == Cardinality({ i \in DOMAIN s : s[i] = x })
SameBag(s, t) == \A x \in Elems(s) \cup Elems(t) : Count(s, x) = Count(t, x)
SubBag(s, t) == \A x \in Elems(s) : Count(s, x) <= Count(t, x)

\* The distances from target to the items of s, item by item
DistsTo(s, target) == [i \in DOMAIN s |-> distanceMetric(s[i], target)]

\* How many of the k smallest values of s equal v
CountBelow(s, v) == Cardinality({ i \in DOMAIN s : s[i] < v })
InKSmallest(s, k, v) == Min(Count(s, v), Max(0, k - CountBelow(s, v)))

\* dists holds the k smallest values of all (all of them when k > Len(all))
IsKSmallest(dists, all, k) ==
    \A v \in Elems(dists) \cup Elems(all) : Count(dists, v) = InKSmallest(all, k, v)

Paired(c) ==
    /\ Len(c.results) = Len(c.distances)
    /\ \A i \in DOMAIN c.results :
         distanceMetric(c.results[i], c.target) = c.distances[i]

----------------------------------------------------------------------------
(* Properties of src/unnamed/part_000 used from one goroutine *)

\* C1: a Search call with k >= 1 on the tree New built returns, as distances,
\* the k smallest of the distances from target to the items New was given
\* (all of them when k exceeds their number), every returned item beside its
\* own distance to target, and no item more often than New was given it.
C1_Exact ==
    (last.called /\ last.k >= 1) =>
        /\ IsKSmallest(last.distances, DistsTo(input, last.target), last.k)
        /\ Paired(last)
        /\ SubBag(last.results, input)

\* a call that had to leave items of a two-level tree out, with two results
\* at one distance
C1_Witness ==
    /\ last.called
    /\ last.k = 2
    /\ Len(input) = 4
    /\ root.Left # Nil
    /\ root.Right # Nil
    /\ Len(last.distances) = 2
    /\ last.distances[1] = last.distances[2]
    /\ \E i \in DOMAIN input : distanceMetric(input[i], last.target) > last.distances[2]

\* C2: Search returns min(max(k, 0), n) items and as many distances, n the
\* number of items New was given.
C2_Length ==
    last.called =>
        /\ Len(last.results) = Min(Max(last.k, 0), Len(input))
        /\ Len(last.distances) = Min(Max(last.k, 0), Len(input))

\* a call cut short by k on a tree that holds more, a call with k < 1 on a
\* tree that holds items, and a call on the empty tree are all reachable;
\* the witness is the first
C2_Witness ==
    /\ last.called
    /\ last.k >= 1
    /\ last.k < Len(input)
    /\ Len(last.results) = last.k

\* C3: the distances Search returns never decrease along the sequence, and
\* results[i] is at distance distances[i] from target.
C3_Ordered ==
    last.called =>
        /\ \A i, j \in DOMAIN last.distances :
             i < j => last.distances[i] <= last.distances[j]
        /\ Len(last.results) = Len(last.distances)
        /\ \A i \in DOMAIN last.results :
             distanceMetric(last.results[i], last.target) = last.distances[i]

C3_Witness ==
    /\ last.called
    /\ Len(last.distances) = 3
    /\ last.distances[1] < last.distances[2]
    /\ last.distances[2] < last.distances[3]

\* C6, as claimed: after New the caller's slice holds the elements it held
\* before, each as often as before.
C6_SameBag == built => SameBag(items, input)

\* C6, as the code has it: after New the caller's slice has the length it
\* had and holds only elements it held before, and the nodes of the tree
\* hold the elements the slice held before, each as often as before.
C6_Overwritten ==
    built =>
        /\ Len(items) = Len(input)
        /\ Elems(items) \subseteq Elems(input)
        /\ SameBag(TreeItems(root), input)

\* New has returned and the slice has lost an element
C6_Witness ==
    /\ built
    /\ Len(input) >= 2
    /\ \E x \in Elems(input) : x \notin Elems(items)

\* C7: for every node, the items of its Left subtree are at distance
\* <= Threshold from the node's item and those of its Right subtree at
\* distance >= Threshold.
C7_Partition ==
    built =>
        \A n \in Nodes(root) :
            /\ \A x \in Elems(TreeItems(n.Left)) :
                 distanceMetric(x, n.Item) <= n.Threshold
            /\ \A x \in Elems(TreeItems(n.Right)) :
                 distanceMetric(x, n.Item) >= n.Threshold

\* a root with items on both sides, one strictly inside and one strictly
\* outside the threshold
C7_Witness ==
    /\ built
    /\ root # Nil
    /\ \E x \in Elems(TreeItems(root.Left)) :
         distanceMetric(x, root.Item) < root.Threshold
    /\ \E x \in Elems(TreeItems(root.Right)) :
         distanceMetric(x, root.Item) > root.Threshold

\* The distance at rank r (0-based) among the values of s in ascending order
Ranked(s, r) ==
    CHOOSE v \in Elems(s) :
        /\ CountBelow(s, v) <= r
        /\ r < CountBelow(s, v) + Count(s, v)

\* C9: every node with m >= 1 descendants has as Threshold the distance of
\* its item to the descendant of rank m / 2 by distance, and the sizes of
\* its Left and Right subtrees differ by at most one.
C9_Median ==
    built =>
        \A n \in Nodes(root) :
            LET desc == TreeItems(n.Left) \o TreeItems(n.Right)
                l == Len(TreeItems(n.Left))
                r == Len(TreeItems(n.Right))
            IN Len(desc) >= 1 =>
                 /\ n.Threshold = Ranked(DistsTo(desc, n.Item), Len(desc) \div 2)
                 /\ l - r <= 1
                 /\ r - l <= 1

----------------------------------------------------------------------------
(* Properties of concurrent Search calls *)

\* The largest distance in a candidate heap
HeapMax(h) == CHOOSE v \in { h[i].Dist : i \in DOMAIN h } :
                 \A i \in DOMAIN h : h[i].Dist <= v

\* C4: a Search call of src/unnamed/part_000 that ran while other
\* goroutines searched the same tree returns what the call returns when it
\* runs in one piece.
C4_Deterministic ==
    \A p \in Procs :
        calls[p].pc = "done" =>
            LET r == Search(root, calls[p].target, calls[p].k)
            IN /\ calls[p].results = r.results
               /\ calls[p].distances = r.distances

\* one call has returned its neighbours while another is in mid traversal
\* with a candidate in its heap and a radius of its own
C4_Witness ==
    /\ calls[1].pc = "done"
    /\ Len(calls[1].results) = 2
    /\ calls[2].pc = "run"
    /\ calls[2].stack # <<>>
    /\ Len(calls[2].h) = calls[2].k
    /\ calls[2].target # calls[1].target
    /\ calls[2].k # calls[1].k

\* C5: a Search call of src/vptree.go that ran while another goroutine
\* searched the same tree returns what the call returns when it runs alone.
C5_Alone ==
    \A p \in Procs :
        calls[p].pc = "done" =>
            LET r == OldSearch(items, root, calls[p].target, calls[p].k)
            IN /\ calls[p].results = r.results
               /\ calls[p].distances = r.distances

C8_State(p) ==
    Running(p) =>
        /\ Len(calls[p].h) <= calls[p].k
        /\ Len(calls[p].h) = calls[p].k => tau[tauCell(p)] = HeapMax(calls[p].h)
        /\ Len(calls[p].h) < calls[p].k => tau[tauCell(p)] = MaxFloat64

C8_Step(p) ==
    (Running(p) /\ calls'[p].pc = "run") => tau'[tauCell(p)] <= tau[tauCell(p)]

\* C8: while a Search call with k >= 1 traverses the tree its heap holds at
\* most k entries, its tau never increases, tau is the largest distance in
\* the heap when the heap holds k entries, and tau is math.MaxFloat64 while
\* the heap holds fewer.
C8_Radius ==
    /\ [](\A p \in Procs : C8_State(p))
    /\ [][\A p \in Procs : C8_Step(p)]_vars

\* a call in mid traversal whose heap is full, with a radius that leaves an
\* item of the tree outside
C8_Witness ==
    /\ Running(1)
    /\ calls[1].stack # <<>>
    /\ calls[1].k = 2
    /\ Len(calls[1].h) = 2
    /\ tau[tauCell(1)] < MaxFloat64
    /\ \E x \in Elems(TreeItems(root)) :
         distanceMetric(x, calls[1].target) > tau[tauCell(1)]

\* The Index fields of the nodes of a subtree of src/vptree.go, node first
RECURSIVE TreeIndexes(_)
TreeIndexes(n) ==
    IF n = Nil THEN <<>>
    ELSE <<n.Index>> \o TreeIndexes(n.Left) \o TreeIndexes(n.Right)

\* C10: the tree New of src/vptree.go builds from a non-empty slice has
\* len(items) nodes, and every index 0..len(items)-1 is the Index of
\* exactly one of them.
C10_Coverage ==
    (built /\ Len(input) >= 1) =>
        /\ Len(TreeIndexes(root)) = Len(input)
        /\ \A i \in 0..(Len(input) - 1) : Count(TreeIndexes(root), i) = 1

====
